---- MODULE Spec2Model ----
(***************************************************************************)
(* A model of placsp_module.py: the daily PLACSP tender filter.            *)
(*                                                                         *)
(* A caller invokes one of the module's public functions (run_placsp,      *)
(* process_zip_bytes or http_get_bytes) with inputs drawn from small       *)
(* pools.  Text is a sequence of one-character strings, so that prefix     *)
(* tests, stripping, zero-padding, ordering and joining are computed       *)
(* character by character as Python computes them.                         *)
(***************************************************************************)
EXTENDS Integers, Sequences, FiniteSets, TLC

----------------------------------------------------------------------------
(* Characters and text                                                     *)

Digits == <<"0", "1", "2", "3", "4", "5", "6", "7", "8", "9">>

UpperCase == <<"A", "B", "C", "D", "E", "F", "G", "H", "I", "J", "K", "L", "M",
               "N", "O", "P", "Q", "R", "S", "T", "U", "V", "W", "X", "Y", "Z">>

LowerCase == <<"a", "b", "c", "d", "e", "f", "g", "h", "i", "j", "k", "l", "m",
               "n", "o", "p", "q", "r", "s", "t", "u", "v", "w", "x", "y", "z">>

Range(s) == {s[i] : i \in 1..Len(s)}

IndexOf(s, c) == CHOOSE i \in 1..Len(s) : s[i] = c

\* str.isspace() of one character (the ASCII whitespace of the model's alphabet).
IsSpace(c) == c \in {" ", "\t", "\n"}

\* The code point of a character: Python orders str values by code point.
Ord(c) ==
    CASE c \in Range(Digits)    -> 47 + IndexOf(Digits, c)
      [] c \in Range(UpperCase) -> 64 + IndexOf(UpperCase, c)
      [] c \in Range(LowerCase) -> 96 + IndexOf(LowerCase, c)
      [] c = "\t" -> 9
      [] c = "\n" -> 10
      [] c = " "  -> 32
      [] c = "-"  -> 45
      [] c = "."  -> 46
      [] c = ":"  -> 58
      [] c = ";"  -> 59

\* str.lower() of one character.
LowerChar(c) == IF c \in Range(UpperCase) THEN LowerCase[IndexOf(UpperCase, c)] ELSE c

\* str.lower()
Lower(s) == [i \in 1..Len(s) |-> LowerChar(s[i])]

\* str.startswith(prefix)
StartsWith(s, prefix) ==
    /\ Len(prefix) <= Len(s)
    /\ \A i \in 1..Len(prefix) : s[i] = prefix[i]

\* str.endswith(suffix)
EndsWith(s, suffix) ==
    /\ Len(suffix) <= Len(s)
    /\ \A i \in 1..Len(suffix) : s[Len(s) - Len(suffix) + i] = suffix[i]

\* str.isdigit(): non-empty and every character a digit.
IsDigitStr(s) == Len(s) > 0 /\ \A i \in 1..Len(s) : s[i] \in Range(Digits)

RECURSIVE LStrip(_)
LStrip(s) == IF s # <<>> /\ IsSpace(Head(s)) THEN LStrip(Tail(s)) ELSE s

RECURSIVE RStrip(_)
RStrip(s) ==
    IF s # <<>> /\ IsSpace(s[Len(s)]) THEN RStrip(SubSeq(s, 1, Len(s) - 1)) ELSE s

\* str.strip()
Strip(s) == RStrip(LStrip(s))

\* str.zfill(width) of a text without a sign: zeros are added on the left up to
\* width, and a text already that long or longer is returned as it is.
RECURSIVE ZFill(_, _)
ZFill(s, width) == IF Len(s) >= width THEN s ELSE ZFill(<<"0">> \o s, width)

\* s < t in Python's str order (lexicographic by code point).
RECURSIVE StrLess(_, _)
StrLess(s, t) ==
    IF t = <<>> THEN FALSE
    ELSE IF s = <<>> THEN TRUE
    ELSE IF Head(s) # Head(t) THEN Ord(Head(s)) < Ord(Head(t))
    ELSE StrLess(Tail(s), Tail(t))

\* sorted(set_of_texts): the least element first.
RECURSIVE Sorted(_)
Sorted(S) ==
    IF S = {} THEN <<>>
    ELSE LET m == CHOOSE x \in S : \A y \in S \ {x} : StrLess(x, y)
         IN  <<m>> \o Sorted(S \ {m})

\* sep.join(list_of_texts)
RECURSIVE Join(_, _)
Join(sep, parts) ==
    IF parts = <<>> THEN <<>>
    ELSE IF Len(parts) = 1 THEN parts[1]
    ELSE parts[1] \o sep \o Join(sep, Tail(parts))

----------------------------------------------------------------------------
(* Bounds of the model                                                     *)

\* The longest archive (number of listed members).
MaxMembers == 2

\* The longest caller-supplied list of candidate codes.
MaxCands == 2

\* The largest retries argument of a direct call of http_get_bytes.
MaxRetries == 3

----------------------------------------------------------------------------
(* Program constants                                                       *)

\* c.zfill(8)
CPV_WIDTH == 8

\* retries: int = 3
DEFAULT_RETRIES == 3

\* backoff: float = 1.5, kept exact as the fraction 3/2
DEFAULT_BACKOFF == <<3, 2>>

C_45261215 == <<"4", "5", "2", "6", "1", "2", "1", "5">>
C_09330000 == <<"0", "9", "3", "3", "0", "0", "0", "0">>
C_45315300 == <<"4", "5", "3", "1", "5", "3", "0", "0">>

DEFAULT_CPV == <<C_09330000, C_45261215, C_45315300>>

\* name.lower().endswith(".atom")
FEED_SUFFIX == <<".", "a", "t", "o", "m">>

\* The keys of a record, the columns of the CSV.
COLS == <<"expediente", "objeto", "organo", "estado", "importe", "cpv",
          "fecha_updated", "enlace">>

----------------------------------------------------------------------------
(* Inputs: texts, feed entries, archive members, archives                  *)

D_20240305 == <<"2", "0", "2", "4", "-", "0", "3", "-", "0", "5">>
D_20240306 == <<"2", "0", "2", "4", "-", "0", "3", "-", "0", "6">>
D_bad      == <<"b", "a", "d">>
D_2        == <<"2">>
D_3        == <<"3">>

C_abc       == <<"a", "b", "c">>
C_123       == <<"1", "2", "3">>
C_00000123  == <<"0", "0", "0", "0", "0", "1", "2", "3">>
C_sp123     == <<" ">> \o C_00000123 \o <<"\t">>
C_123456789 == <<"1", "2", "3", "4", "5", "6", "7", "8", "9">>

\* A parsed entry node, seen through the path queries the code makes: for
\* each queried local name, the string-values of the matching nodes in
\* document order (for codes: the text nodes of every ItemClassificationCode
\* beneath the entry).
MkEntry(upd, ttl, org, cds) ==
    [updated |-> upd, title |-> ttl, link |-> <<>>, expediente |-> <<<<"7">>>>,
     organo |-> org, importe |-> <<>>, estado |-> <<>>, codes |-> cds]

\* updated 2024-03-05T10, one target code (the spec's scenario A)
E_A == MkEntry(<<D_20240305 \o <<"T", "1", "0">>>>, <<<<"o", "b", "r", "a">>>>,
               <<<<"x", "y">>>>, <<C_45261215>>)

\* updated 2024-03-06, a repeated code and a smaller one after it
E_B == MkEntry(<<D_20240306>>, <<>>, <<<<"a", "b">>>>,
               <<C_45261215, C_45261215, C_09330000>>)

\* updated is the single character 2, two updated children
E_C == MkEntry(<<D_2, D_3>>, <<<<"z">>>>, <<>>, <<C_00000123, C_09330000>>)

\* no updated child at all
E_D == MkEntry(<<>>, <<>>, <<>>, <<C_09330000>>)

\* updated 2024-03-05 and no code
E_E == MkEntry(<<D_20240305>>, <<<<"t">>>>, <<>>, <<>>)

\* The state holds an entry node by reference; EntryOf is the node.
EntryOf(ref) ==
    CASE ref = "E_A" -> E_A
      [] ref = "E_B" -> E_B
      [] ref = "E_C" -> E_C
      [] ref = "E_D" -> E_D
      [] ref = "E_E" -> E_E

\* An archive member: its listed name, what ZipFile.read(name) does, and what
\* the recovering parser makes of its bytes (root: whether a root element is
\* recovered; entries: the entry elements under it, in document order).
MkMember(nm, rd, rt, es) == [name |-> nm, read |-> rd, root |-> rt, entries |-> es]

M_a    == MkMember(<<"a">> \o FEED_SUFFIX, "ok", TRUE, <<"E_A", "E_B">>)
M_B    == MkMember(<<"B", ".", "A", "T", "O", "M">>, "ok", TRUE, <<"E_C", "E_D", "E_E">>)
M_txt  == MkMember(<<"a", ".", "t", "x", "t">>, "ok", TRUE, <<"E_A">>)
M_gone == MkMember(<<"g">> \o FEED_SUFFIX, "KeyError", TRUE, <<"E_A">>)
M_bad  == MkMember(<<"c">> \o FEED_SUFFIX, "BadZipFile", TRUE, <<"E_A">>)
M_junk == MkMember(<<"j">> \o FEED_SUFFIX, "ok", FALSE, <<>>)

\* The state holds the bytes of a member by reference; MemberOf is the member.
MemberOf(ref) ==
    CASE ref = "M_a"    -> M_a
      [] ref = "M_B"    -> M_B
      [] ref = "M_txt"  -> M_txt
      [] ref = "M_gone" -> M_gone
      [] ref = "M_bad"  -> M_bad
      [] ref = "M_junk" -> M_junk

MemberPool == {"M_a", "M_B", "M_txt", "M_gone", "M_bad", "M_junk"}

SeqsUpTo(S, n) == UNION {[1..k -> S] : k \in 0..n}

\* The bytes handed to process_zip_bytes: a ZIP archive with its members in
\* listing order, or bytes that are no ZIP archive.
NoBytes  == [kind |-> "none", members |-> <<>>]
NotAZip  == [kind |-> "notzip", members |-> <<>>]
Archives == {[kind |-> "zip", members |-> ms] : ms \in SeqsUpTo(MemberPool, MaxMembers)}
BytesPool == Archives \cup {NotAZip}

\* What the server can answer a download with: bytes that are no archive, an
\* empty archive, archives that are processed to the end, and archives with
\* a member that breaks the processing after a good one.
Zip(ms) == [kind |-> "zip", members |-> ms]
DownloadPool ==
    {NotAZip, Zip(<<>>), Zip(<<"M_a", "M_B">>), Zip(<<"M_txt", "M_gone", "M_a">>),
     Zip(<<"M_a", "M_bad">>), Zip(<<"M_B", "M_junk">>)}

\* Target dates and target code sets of a direct call of process_zip_bytes.
DatePool   == {<<>>, D_2, D_3, D_20240305, D_20240306}
TargetPool == {{}, {C_45261215}, {C_09330000, C_00000123}}

\* The date_iso argument of run_placsp (None, or a text) and the civil date of
\* the clock at the call.
NoneArg(v)  == [given |-> FALSE, value |-> v]
SomeArg(v)  == [given |-> TRUE, value |-> v]
DateArgs    == {NoneArg(<<>>), SomeArg(<<>>), SomeArg(D_20240305), SomeArg(D_bad)}
TodayPool   == {D_20240306}

\* The cpv argument of run_placsp: None, or a list of candidate texts.
CandPool == {C_abc, C_123, C_sp123, C_123456789}
CpvArgs  == {NoneArg(<<>>)} \cup {SomeArg(l) : l \in SeqsUpTo(CandPool, MaxCands)}

\* The backoff argument of a direct call of http_get_bytes, as a fraction.
BackoffPool == {<<3, 2>>, <<2, 1>>, <<1, 1>>, <<1, 2>>}

\* What one requests.get + raise_for_status attempt can raise.
FailureKinds == {"ConnectionError", "HTTPError"}

----------------------------------------------------------------------------
(* The functions of placsp_module.py                                       *)

\* XPath string(node-set): the string-value of the first node in document
\* order, the empty text for an empty node-set.
XPathString(nodes) == IF nodes = <<>> THEN <<>> ELSE nodes[1]

\* text1(node, "string(<path>)"): the query result res is a str, so res[0] is
\* its first character, which is a str and is returned as it is.
text1(node, field) ==
    LET res == XPathString(node[field])
    IN  IF res = <<>> THEN <<>> ELSE <<res[1]>>

\* texts(node, ".../text()"): every result is a str and is kept whole.
texts(node, field) ==
    LET res == node[field]
        out == [i \in 1..Len(res) |-> res[i]]
    IN  SelectSeq(out, LAMBDA x : TRUE)

\* Fault injection for C1: the prefix test is left out.
entry_is_for_date_no_prefix(entry, iso_date) ==
    text1(entry, "updated") # <<>>

\* bool(upd) and upd.startswith(iso_date)

entry_is_for_date(entry, iso_date) ==
    LET upd == text1(entry, "updated")
    IN  upd # <<>> /\ StartsWith(upd, iso_date)

entry_cpv_codes(entry) == texts(entry, "codes")

\* Fault injection for C9: the codes are joined as they were found.
cpv_concat_unsorted(cpvs) == Join(<<";">>, cpvs)

\* ";".join(sorted(set(cpvs)))

cpv_concat(cpvs) == Join(<<";">>, Sorted(Range(cpvs)))

extract_fields(entry) ==
    [expediente    |-> text1(entry, "expediente"),
     objeto        |-> text1(entry, "title"),
     organo        |-> text1(entry, "organo"),
     estado        |-> text1(entry, "estado"),
     importe       |-> text1(entry, "importe"),
     cpv           |-> cpv_concat(entry_cpv_codes(entry)),
     fecha_updated |-> text1(entry, "updated"),
     enlace        |-> text1(entry, "link")]

\* not name.lower().endswith(".atom")
is_feed_member(name) == EndsWith(Lower(name), FEED_SUFFIX)

\* The value of two decimal digits.
Num2(a, b) == 10 * (Ord(a) - 48) + (Ord(b) - 48)

\* dt.date.fromisoformat accepts the text: YYYY-MM-DD with a month of the
\* year and a day of the month (the length of the month is not modelled).
IsIsoDate(t) ==
    /\ Len(t) = 10
    /\ t[5] = "-" /\ t[8] = "-"
    /\ \A i \in {1, 2, 3, 4, 6, 7, 9, 10} : t[i] \in Range(Digits)
    /\ Num2(t[6], t[7]) \in 1..12
    /\ Num2(t[9], t[10]) \in 1..31

\* target_date.strftime("%Y%m"), the part of the URL that varies
month_zip_url(target) == SubSeq(target, 1, 4) \o SubSeq(target, 6, 7)

\* cpv or DEFAULT_CPV: None and the empty list are both replaced.
cpv_or_default(arg) ==
    IF arg.given /\ arg.value # <<>> THEN arg.value ELSE DEFAULT_CPV

\* Fault injection for C8: a zero is always put in front.
zfill8_prepend(c) == <<"0">> \o c

\* c.zfill(8)

zfill8(c) == ZFill(c, CPV_WIDTH)

\* {c.strip() for c in cands if c and c.strip().isdigit()}, then
\* {c.zfill(8) for c in cpv_targets}; cands is any iterable of texts.
normalize_cpv(cands) ==
    LET kept == {Strip(c) : c \in {x \in cands : x # <<>> /\ IsDigitStr(Strip(x))}}
    IN  {zfill8(c) : c \in kept}

\* backoff ** i, on fractions
RECURSIVE Pow(_, _)
Pow(b, i) == IF i = 0 THEN <<1, 1>> ELSE <<b[1] * Pow(b, i - 1)[1], b[2] * Pow(b, i - 1)[2]>>

----------------------------------------------------------------------------
(* State                                                                   *)

VARIABLES
    call,         \* the public function the caller invoked
    pc,           \* where the call stands
    date_iso,     \* run_placsp: the date_iso argument
    cpv,          \* run_placsp: the cpv argument
    today,        \* run_placsp: the civil date of the clock
    iso_date,     \* the target date text
    cpv_targets,  \* the target code set
    url,          \* http_get_bytes: the URL (its year-month part)
    retries,      \* http_get_bytes: the retries argument
    backoff,      \* http_get_bytes: the backoff argument, a fraction
    attempt,      \* http_get_bytes: the loop variable i
    last_exc,     \* http_get_bytes: last_exc
    trace,        \* what reached the network and the clock: gets and sleeps, in order
    zip_bytes,    \* process_zip_bytes: the archive bytes
    mi,           \* process_zip_bytes: index of the current member of namelist()
    ei,           \* process_zip_bytes: index of the current entry of the member
    entries,      \* process_zip_bytes: the entries iter_entries returned
    found,        \* process_zip_bytes: found
    found_src,    \* history: for each record of found, the <<member, entry>> it came from
    csv,          \* the CSV file at out_path
    result,       \* what the call returned
    error         \* what the call raised

vars == <<call, pc, date_iso, cpv, today, iso_date, cpv_targets, url, retries,
          backoff, attempt, last_exc, trace, zip_bytes, mi, ei, entries, found,
          found_src, csv, result, error>>

NoExc    == [kind |-> "None", attempt |-> -1]
NoError  == [type |-> "none", origin |-> "none", cause |-> NoExc]
NoResult == [kind |-> "none", content |-> NoBytes, rows |-> <<>>]
NoCsv    == [written |-> FALSE, header |-> <<>>, rows |-> <<>>]

GetEvent(i, exc, content) ==
    [op |-> "get", attempt |-> i, exc |-> exc, content |-> content, delay |-> <<0, 1>>]

SleepEvent(i, delay) ==
    [op |-> "sleep", attempt |-> i, exc |-> NoExc, content |-> NoBytes, delay |-> delay]

Idle ==
    /\ url = <<>> /\ retries = 0 /\ backoff = <<1, 1>> /\ attempt = 0
    /\ last_exc = NoExc /\ trace = <<>>
    /\ mi = 0 /\ ei = 0 /\ entries = <<>> /\ found = <<>> /\ found_src = <<>>
    /\ csv = NoCsv /\ result = NoResult /\ error = NoError

\* run_placsp(date_iso, cpv)
InitRun ==
    /\ call = "run_placsp" /\ pc = "run_start"
    /\ date_iso \in DateArgs /\ cpv \in CpvArgs /\ today \in TodayPool
    /\ iso_date = <<>> /\ cpv_targets = {} /\ zip_bytes = NoBytes
    /\ Idle

\* process_zip_bytes(zip_bytes, iso_date, cpv_targets)
InitZip ==
    /\ call = "process_zip_bytes" /\ pc = "zip_open"
    /\ date_iso = NoneArg(<<>>) /\ cpv = NoneArg(<<>>) /\ today = <<>>
    /\ iso_date \in DatePool /\ cpv_targets \in TargetPool /\ zip_bytes \in BytesPool
    /\ Idle

\* http_get_bytes(url, retries=..., backoff=...)
InitHttp ==
    /\ call = "http_get_bytes" /\ pc = "http"
    /\ date_iso = NoneArg(<<>>) /\ cpv = NoneArg(<<>>) /\ today = <<>>
    /\ iso_date = <<>> /\ cpv_targets = {} /\ zip_bytes = NoBytes
    /\ url = month_zip_url(D_20240305)
    /\ retries \in 0..MaxRetries /\ backoff \in BackoffPool
    /\ attempt = 0 /\ last_exc = NoExc /\ trace = <<>>
    /\ mi = 0 /\ ei = 0 /\ entries = <<>> /\ found = <<>> /\ found_src = <<>>
    /\ csv = NoCsv /\ result = NoResult /\ error = NoError

Init == InitRun \/ InitZip \/ InitHttp

Raise(type, origin, cause) ==
    /\ pc' = "raised"
    /\ error' = [type |-> type, origin |-> origin, cause |-> cause]

----------------------------------------------------------------------------
(* run_placsp                                                              *)

\* resolve_target_date: a non-empty text is parsed (and may be rejected), None
\* and the empty text give the clock's date.
resolve_target_date(arg, clock) ==
    IF arg.given /\ arg.value # <<>>
    THEN [ok |-> IsIsoDate(arg.value), date |-> arg.value]
    ELSE [ok |-> TRUE, date |-> clock]

\* target = resolve_target_date(date_iso); iso_date = target.isoformat()
ResolveDate ==
    /\ pc = "run_start"
    /\ LET r == resolve_target_date(date_iso, today)
       IN  IF r.ok
           THEN /\ iso_date' = r.date
                /\ pc' = "run_norm"
                /\ UNCHANGED error
           ELSE /\ Raise("ValueError", "date", NoExc)
                /\ UNCHANGED iso_date
    /\ UNCHANGED <<call, date_iso, cpv, today, cpv_targets, url, retries, backoff,
                   attempt, last_exc, trace, zip_bytes, mi, ei, entries, found,
                   found_src, csv, result>>

\* Fault injection for C4: the check of the empty set is left out.
NormalizeTargetsUnchecked ==
    /\ pc = "run_norm"
    /\ cpv_targets' = normalize_cpv(Range(cpv_or_default(cpv)))
    /\ url' = month_zip_url(iso_date)
    /\ retries' = DEFAULT_RETRIES
    /\ backoff' = DEFAULT_BACKOFF
    /\ pc' = "http"
    /\ UNCHANGED <<call, date_iso, cpv, today, iso_date, attempt, last_exc, trace,
                   zip_bytes, mi, ei, entries, found, found_src, csv, result, error>>

\* The two set comprehensions, the check of the empty set, and the call of
\* http_get_bytes(url) with its default retries and backoff.
NormalizeTargets ==
    /\ pc = "run_norm"
    /\ LET t == normalize_cpv(Range(cpv_or_default(cpv)))
       IN  /\ cpv_targets' = t
           /\ IF t = {}
              THEN /\ Raise("ValueError", "config", NoExc)
                   /\ UNCHANGED <<url, retries, backoff>>
              ELSE /\ url' = month_zip_url(iso_date)
                   /\ retries' = DEFAULT_RETRIES
                   /\ backoff' = DEFAULT_BACKOFF
                   /\ pc' = "http"
                   /\ UNCHANGED error
    /\ UNCHANGED <<call, date_iso, cpv, today, iso_date, attempt, last_exc, trace,
                   zip_bytes, mi, ei, entries, found, found_src, csv, result>>

\* write_csv(rows, path): the header and one line of cells per row.
write_csv(rows) ==
    [written |-> TRUE,
     header  |-> COLS,
     rows    |-> [i \in 1..Len(rows) |-> [j \in 1..Len(COLS) |-> rows[i][COLS[j]]]]]

\* rows is back from process_zip_bytes: write the CSV and return.
WriteCsv ==
    /\ pc = "run_write"
    /\ csv' = write_csv(found)
    /\ result' = [kind |-> "run", content |-> NoBytes, rows |-> found]
    /\ pc' = "returned"
    /\ UNCHANGED <<call, date_iso, cpv, today, iso_date, cpv_targets, url, retries,
                   backoff, attempt, last_exc, trace, zip_bytes, mi, ei, entries,
                   found, found_src, error>>

----------------------------------------------------------------------------
(* http_get_bytes                                                          *)

\* One pass of the loop body in which requests.get and raise_for_status
\* succeed: r.content is returned (to run_placsp, which hands it on to
\* process_zip_bytes, or to the caller).
HttpAttemptOk ==
    /\ pc = "http"
    /\ attempt < retries
    /\ \E content \in DownloadPool :
         /\ trace' = Append(trace, GetEvent(attempt, NoExc, content))
         /\ IF call = "run_placsp"
            THEN /\ zip_bytes' = content
                 /\ pc' = "zip_open"
                 /\ UNCHANGED result
            ELSE /\ result' = [kind |-> "bytes", content |-> content, rows |-> <<>>]
                 /\ pc' = "returned"
                 /\ UNCHANGED zip_bytes
    /\ UNCHANGED <<call, date_iso, cpv, today, iso_date, cpv_targets, url, retries,
                   backoff, attempt, last_exc, mi, ei, entries, found, found_src,
                   csv, error>>

\* Fault injection for C3: the test i < retries - 1 is left out.
sleep_after_failure_always(i, n, b) == <<SleepEvent(i, Pow(b, i))>>

\* if i < retries - 1: time.sleep(backoff ** i), after the failure of attempt i

sleep_after_failure(i, n, b) ==
    IF i < n - 1 THEN <<SleepEvent(i, Pow(b, i))>> ELSE <<>>

\* One pass of the loop body in which the attempt raises.
HttpAttemptFail ==
    /\ pc = "http"
    /\ attempt < retries
    /\ \E kind \in FailureKinds :
         LET exc == [kind |-> kind, attempt |-> attempt]
         IN  /\ last_exc' = exc
             /\ trace' = Append(trace, GetEvent(attempt, exc, NoBytes))
                           \o sleep_after_failure(attempt, retries, backoff)
    /\ attempt' = attempt + 1
    /\ UNCHANGED <<call, pc, date_iso, cpv, today, iso_date, cpv_targets, url,
                   retries, backoff, zip_bytes, mi, ei, entries, found, found_src,
                   csv, result, error>>

\* The loop is over: raise RuntimeError(...) from last_exc.
HttpExhausted ==
    /\ pc = "http"
    /\ attempt >= retries
    /\ Raise("RuntimeError", "download", last_exc)
    /\ UNCHANGED <<call, date_iso, cpv, today, iso_date, cpv_targets, url, retries,
                   backoff, attempt, last_exc, trace, zip_bytes, mi, ei, entries,
                   found, found_src, csv, result>>

----------------------------------------------------------------------------
(* process_zip_bytes                                                       *)

Members == [i \in 1..Len(zip_bytes.members) |-> MemberOf(zip_bytes.members[i])]

AtMember == pc = "zip_member" /\ mi <= Len(Members)

\* iter_entries(atom_bytes): with no root element recovered, etree.fromstring
\* raises or returns None and root.xpath raises; otherwise the entry elements.
iter_entries(member) ==
    [raised |-> ~member.root, entries |-> member.entries]

\* zipfile.ZipFile(io.BytesIO(zip_bytes)), found = []
ZipOpen ==
    /\ pc = "zip_open"
    /\ IF zip_bytes.kind = "zip"
       THEN /\ pc' = "zip_member"
            /\ mi' = 1
            /\ found' = <<>>
            /\ found_src' = <<>>
            /\ UNCHANGED error
       ELSE /\ Raise("BadZipFile", "archive", NoExc)
            /\ UNCHANGED <<mi, found, found_src>>
    /\ UNCHANGED <<call, date_iso, cpv, today, iso_date, cpv_targets, url, retries,
                   backoff, attempt, last_exc, trace, zip_bytes, ei, entries, csv,
                   result>>

NextMember ==
    /\ mi' = mi + 1
    /\ UNCHANGED <<call, pc, date_iso, cpv, today, iso_date, cpv_targets, url,
                   retries, backoff, attempt, last_exc, trace, zip_bytes, ei,
                   entries, found, found_src, csv, result, error>>

\* Fault injection for C5: what was found so far is written on the way out.
ZipFailsAfterWriting(type, origin) ==
    /\ Raise(type, origin, NoExc)
    /\ csv' = write_csv(found)
    /\ UNCHANGED <<call, date_iso, cpv, today, iso_date, cpv_targets, url, retries,
                   backoff, attempt, last_exc, trace, zip_bytes, mi, ei, entries,
                   found, found_src, result>>

\* An exception raised inside process_zip_bytes: nothing catches it, in
\* process_zip_bytes or in run_placsp.
ZipFails(type, origin) ==
    /\ Raise(type, origin, NoExc)
    /\ UNCHANGED <<call, date_iso, cpv, today, iso_date, cpv_targets, url, retries,
                   backoff, attempt, last_exc, trace, zip_bytes, mi, ei, entries,
                   found, found_src, csv, result>>

\* if not name.lower().endswith(".atom"): continue
SkipNonFeed ==
    /\ AtMember
    /\ ~is_feed_member(Members[mi].name)
    /\ NextMember

\* zf.read(name) raises KeyError: continue
ReadKeyError ==
    /\ AtMember
    /\ is_feed_member(Members[mi].name)
    /\ Members[mi].read = "KeyError"
    /\ NextMember

\* zf.read(name) raises anything else: no handler, the exception leaves
\* process_zip_bytes
ReadRaises ==
    /\ AtMember
    /\ is_feed_member(Members[mi].name)
    /\ Members[mi].read \notin {"ok", "KeyError"}
    /\ ZipFails(Members[mi].read, "member")

\* atom = zf.read(name); iter_entries(atom) raises
ParseRaises ==
    /\ AtMember
    /\ is_feed_member(Members[mi].name)
    /\ Members[mi].read = "ok"
    /\ iter_entries(Members[mi]).raised
    /\ \E type \in {"XMLSyntaxError", "AttributeError"} : ZipFails(type, "parse")

\* atom = zf.read(name); the for loop starts on iter_entries(atom)
ParseMember ==
    /\ AtMember
    /\ is_feed_member(Members[mi].name)
    /\ Members[mi].read = "ok"
    /\ ~iter_entries(Members[mi]).raised
    /\ entries' = iter_entries(Members[mi]).entries
    /\ ei' = 1
    /\ pc' = "zip_entry"
    /\ UNCHANGED <<call, date_iso, cpv, today, iso_date, cpv_targets, url, retries,
                   backoff, attempt, last_exc, trace, zip_bytes, mi, found,
                   found_src, csv, result, error>>

AtEntry == pc = "zip_entry" /\ ei <= Len(entries)

\* e, the loop variable
CurEntry == EntryOf(entries[ei])

NextEntry ==
    /\ ei' = ei + 1
    /\ UNCHANGED <<call, pc, date_iso, cpv, today, iso_date, cpv_targets, url,
                   retries, backoff, attempt, last_exc, trace, zip_bytes, mi,
                   entries, found, found_src, csv, result, error>>

\* cpvs & cpv_targets, as a truth value
codes_match(entry, targets) == (Range(entry_cpv_codes(entry)) \cap targets) # {}

\* if not entry_is_for_date(e, iso_date): continue
EntryRejectDate ==
    /\ AtEntry
    /\ ~entry_is_for_date(CurEntry, iso_date)
    /\ NextEntry

\* if not (cpvs & cpv_targets): continue
EntryRejectCpv ==
    /\ AtEntry
    /\ entry_is_for_date(CurEntry, iso_date)
    /\ ~codes_match(CurEntry, cpv_targets)
    /\ NextEntry

\* found.append(extract_fields(e))
EntryAccept ==
    /\ AtEntry
    /\ entry_is_for_date(CurEntry, iso_date)
    /\ codes_match(CurEntry, cpv_targets)
    /\ found' = Append(found, extract_fields(CurEntry))
    /\ found_src' = Append(found_src, <<mi, ei>>)
    /\ ei' = ei + 1
    /\ UNCHANGED <<call, pc, date_iso, cpv, today, iso_date, cpv_targets, url,
                   retries, backoff, attempt, last_exc, trace, zip_bytes, mi,
                   entries, csv, result, error>>

\* The entries of the member are exhausted: on to the next name.
MemberDone ==
    /\ pc = "zip_entry"
    /\ ei > Len(entries)
    /\ pc' = "zip_member"
    /\ mi' = mi + 1
    /\ UNCHANGED <<call, date_iso, cpv, today, iso_date, cpv_targets, url, retries,
                   backoff, attempt, last_exc, trace, zip_bytes, ei, entries, found,
                   found_src, csv, result, error>>

\* namelist() is exhausted: return found (to run_placsp, or to the caller).
ZipReturn ==
    /\ pc = "zip_member"
    /\ mi > Len(Members)
    /\ IF call = "run_placsp"
       THEN /\ pc' = "run_write"
            /\ UNCHANGED result
       ELSE /\ pc' = "returned"
            /\ result' = [kind |-> "rows", content |-> NoBytes, rows |-> found]
    /\ UNCHANGED <<call, date_iso, cpv, today, iso_date, cpv_targets, url, retries,
                   backoff, attempt, last_exc, trace, zip_bytes, mi, ei, entries,
                   found, found_src, csv, error>>

----------------------------------------------------------------------------
(* The specification                                                       *)

Next ==
    \/ ResolveDate
    \/ NormalizeTargets
    \/ HttpAttemptOk
    \/ HttpAttemptFail
    \/ HttpExhausted
    \/ ZipOpen
    \/ SkipNonFeed
    \/ ReadKeyError
    \/ ReadRaises
    \/ ParseRaises
    \/ ParseMember
    \/ EntryRejectDate
    \/ EntryRejectCpv
    \/ EntryAccept
    \/ MemberDone
    \/ ZipReturn
    \/ WriteCsv

Spec == Init /\ [][Next]_vars

----------------------------------------------------------------------------
(* Vocabulary of the properties                                            *)

\* text.split(sep) for a one-character separator
RECURSIVE Split(_, _)
Split(t, sep) ==
    IF sep \notin Range(t) THEN <<t>>
    ELSE LET i == CHOOSE j \in 1..Len(t) : t[j] = sep /\ \A k \in 1..(j - 1) : t[k] # sep
         IN  <<SubSeq(t, 1, i - 1)>> \o Split(SubSeq(t, i + 1, Len(t)), sep)

\* The entry a record of found was made from.
SrcEntry(pos) == EntryOf(Members[pos[1]].entries[pos[2]])

\* The full text of the entry's first updated child.
UpdatedText(entry) == XPathString(entry.updated)

\* The two predicates of the Entry Matcher as the specification states them:
\* the updated text is non-empty and starts with the date, and some code of
\* the entry is a target code.
SpecMatches(entry, d, t) ==
    /\ UpdatedText(entry) # <<>>
    /\ StartsWith(UpdatedText(entry), d)
    /\ Range(entry.codes) \cap t # {}

\* A member the loop reads and parses: a feed member that opens.
Readable(m) == is_feed_member(m.name) /\ m.read = "ok" /\ m.root

\* The positions <<member, entry>> of the matching entries of the readable
\* feed members, in listing order and then document order, from <<m, e>> on.
RECURSIVE MatchingFrom(_, _)
MatchingFrom(m, e) ==
    IF m > Len(Members) THEN <<>>
    ELSE IF ~Readable(Members[m]) \/ e > Len(Members[m].entries)
         THEN MatchingFrom(m + 1, 1)
         ELSE (IF SpecMatches(EntryOf(Members[m].entries[e]), iso_date, cpv_targets)
               THEN <<<<m, e>>>> ELSE <<>>) \o MatchingFrom(m, e + 1)

\* run_placsp has computed the target code set.
Normalized ==
    /\ call = "run_placsp"
    /\ pc \notin {"run_start", "run_norm"}
    /\ error.origin # "date"

Gets   == SelectSeq(trace, LAMBDA ev : ev.op = "get")
Sleeps == SelectSeq(trace, LAMBDA ev : ev.op = "sleep")

\* a < b on fractions with positive denominators
FracLess(a, b) == a[1] * b[2] < b[1] * a[2]

\* Every entry of every member of the archive.
ArchiveEntries ==
    UNION {{EntryOf(r) : r \in Range(Members[m].entries)} : m \in 1..Len(Members)}

----------------------------------------------------------------------------
(* Properties                                                              *)

\* C1: every record accumulated by process_zip_bytes comes from an entry that
\* passed both predicates: its fecha_updated is non-empty and starts with the
\* target date text, one of the codes joined in its cpv field is a target
\* code, and the updated text of the entry it came from starts with the
\* target date text (no record for an entry whose updated text does not).
C1_RecordsPassedBothPredicates ==
    \A k \in 1..Len(found) :
        LET rec == found[k]
            src == SrcEntry(found_src[k])
        IN  /\ rec.fecha_updated # <<>>
            /\ StartsWith(rec.fecha_updated, iso_date)
            /\ \E c \in Range(Split(rec.cpv, ";")) : c \in cpv_targets
            /\ StartsWith(UpdatedText(src), iso_date)

\* A call with a non-empty date has returned a record, and has passed over an
\* entry that has a target code but no updated text starting with the date.
C1_Witness ==
    /\ call = "process_zip_bytes" /\ pc = "returned"
    /\ iso_date # <<>>
    /\ found # <<>>
    /\ \E e \in ArchiveEntries :
         /\ Range(e.codes) \cap cpv_targets # {}
         /\ ~StartsWith(UpdatedText(e), iso_date)

\* C2: what process_zip_bytes returns is exactly the matching entries (date
\* prefix match and non-empty code intersection) of the readable feed
\* members, once each, in listing order and then document order.
C2_ReturnsExactlyTheMatchingEntries ==
    (call = "process_zip_bytes" /\ pc = "returned")
        => /\ found_src = MatchingFrom(1, 1)
           /\ Len(result.rows) = Len(found_src)

\* C3: http_get_bytes makes at most retries attempts, numbered from 0; a
\* successful attempt is the last thing it does and its content is what is
\* returned; a failed attempt i that is not the last is followed by one sleep
\* of backoff**i, the last attempt by none; the sleeps grow when backoff > 1;
\* and with every attempt failed it raises one RuntimeError whose cause is
\* the exception of the last attempt.
C3_RetryDiscipline ==
    /\ Len(Gets) <= retries
    /\ \A j \in 1..Len(Gets) : Gets[j].attempt = j - 1
    /\ \A p \in 1..Len(trace) :
         LET ev == trace[p]
         IN  /\ (ev.op = "get" /\ ev.exc = NoExc) =>
                   /\ p = Len(trace)
                   /\ pc # "http"
                   /\ error.origin # "download"
                   /\ call = "http_get_bytes" =>
                        (pc = "returned" /\ result.kind = "bytes"
                         /\ result.content = ev.content)
                   /\ call = "run_placsp" => zip_bytes = ev.content
             /\ (ev.op = "get" /\ ev.exc # NoExc) =>
                   IF ev.attempt < retries - 1
                   THEN /\ p < Len(trace)
                        /\ trace[p + 1] = SleepEvent(ev.attempt, Pow(backoff, ev.attempt))
                   ELSE p = Len(trace)
             /\ ev.op = "sleep" =>
                   /\ p > 1
                   /\ trace[p - 1].op = "get"
                   /\ trace[p - 1].exc # NoExc
    /\ FracLess(<<1, 1>>, backoff) =>
         \A j \in 1..(Len(Sleeps) - 1) : FracLess(Sleeps[j].delay, Sleeps[j + 1].delay)
    /\ error.origin = "download" =>
         /\ pc = "raised"
         /\ error.type = "RuntimeError"
         /\ Len(Gets) = retries
         /\ \A j \in 1..Len(Gets) : Gets[j].exc # NoExc
         /\ error.cause = (IF retries >= 1 THEN Gets[retries].exc ELSE NoExc)

\* Three attempts have failed, with sleeps of 1 and 3/2 between them, and the
\* wrapped error is raised.
C3_Witness ==
    /\ call = "http_get_bytes" /\ pc = "raised"
    /\ retries = 3 /\ backoff = <<3, 2>>
    /\ Len(Gets) = 3
    /\ [j \in 1..Len(Sleeps) |-> Sleeps[j].delay] = <<<<1, 1>>, <<3, 2>>>>
    /\ Gets[2].exc.kind = "ConnectionError"
    /\ error.cause = [kind |-> "HTTPError", attempt |-> 2]

\* C4: in run_placsp an empty normalized target set (no candidate that is
\* purely numeric) raises the configuration error with no download attempt
\* made and no CSV written; a non-empty one (["abc", "123"] gives
\* {"00000123"}) raises no configuration error and goes on to the download.
C4_ConfigErrorBeforeIO ==
    /\ error.origin = "config" => (Normalized /\ cpv_targets = {})
    /\ Normalized =>
         /\ cpv_targets = {} <=>
              \A c \in Range(cpv_or_default(cpv)) : ~IsDigitStr(Strip(c))
         /\ cpv_targets = {} =>
              /\ pc = "raised"
              /\ error.type = "ValueError" /\ error.origin = "config"
              /\ trace = <<>>
              /\ ~csv.written
         /\ cpv_targets # {} =>
              /\ error.origin # "config"
              /\ pc = "http" \/ Len(Gets) >= 1
         /\ cpv = SomeArg(<<C_abc, C_123>>) => cpv_targets = {C_00000123}

\* The only candidate is not numeric and the run has failed.
C4_Witness ==
    /\ call = "run_placsp" /\ pc = "raised"
    /\ cpv = SomeArg(<<C_abc>>)
    /\ error.origin = "config"

\* C5: a run that raised has written no CSV and returned nothing; the CSV is
\* written only by a run_placsp whose download succeeded and whose archive
\* was processed to its last member, and holds the rows returned.
C5_NoPartialResult ==
    /\ pc = "raised" => (~csv.written /\ result = NoResult)
    /\ csv.written =>
         /\ call = "run_placsp" /\ pc = "returned"
         /\ error = NoError
         /\ trace # <<>> /\ trace[Len(trace)].exc = NoExc /\ trace[Len(trace)].op = "get"
         /\ zip_bytes.kind = "zip" /\ mi = Len(Members) + 1
         /\ csv = write_csv(result.rows)
         /\ result.rows = found

\* run_placsp has failed while processing the second member of the archive.
C5_Witness ==
    /\ call = "run_placsp" /\ pc = "raised"
    /\ error.origin \in {"member", "parse"}
    /\ mi = 2

\* C6: a readable feed member whose bytes are completely unparseable yields
\* zero entries rather than raising: the loop goes on with what it has found.
C6_UnparseableMemberYieldsNoEntries ==
    [][(AtMember /\ is_feed_member(Members[mi].name) /\ Members[mi].read = "ok"
            /\ ~Members[mi].root)
         => (pc' # "raised" /\ error' = NoError /\ found' = found)]_vars

\* C7: every member of the normalized target set is 8 characters long, all of
\* them digits.
C7_TargetsAreEightDigits ==
    Normalized => \A c \in cpv_targets : Len(c) = CPV_WIDTH /\ IsDigitStr(c)

\* C8: normalizing the normalized target set again gives the same set.
C8_NormalizationIdempotent ==
    (Normalized /\ cpv_targets # {})
        => normalize_cpv(Range(cpv_or_default(SomeArg(Sorted(cpv_targets))))) = cpv_targets

\* Two candidates that differ before stripping and padding were normalized
\* to one member.
C8_Witness ==
    /\ Normalized
    /\ cpv = SomeArg(<<C_123, C_sp123>>)
    /\ cpv_targets = {C_00000123}

\* C9: for every entry the cpv field of extract_fields is the ";"-join of its
\* distinct code texts in strictly ascending order (["45261215", "45261215",
\* "09330000"] gives "09330000;45261215"), the empty text with no code; and
\* every record of found carries the cpv field of its entry.
C9_CpvSortedDistinctJoin ==
    /\ \A e \in ArchiveEntries :
         LET out   == extract_fields(e).cpv
             parts == Split(out, ";")
         IN  IF e.codes = <<>> THEN out = <<>>
             ELSE /\ Range(parts) = Range(e.codes)
                  /\ \A i \in 1..(Len(parts) - 1) : StrLess(parts[i], parts[i + 1])
    /\ extract_fields(E_B).cpv = C_09330000 \o <<";">> \o C_45261215
    /\ \A k \in 1..Len(found) :
         found[k].cpv = extract_fields(SrcEntry(found_src[k])).cpv

\* The record of the entry with the repeated code is in found, in an archive
\* that also holds the entry without codes.
C9_Witness ==
    /\ \E k \in 1..Len(found) :
         /\ SrcEntry(found_src[k]) = E_B
         /\ found[k].cpv = C_09330000 \o <<";">> \o C_45261215
    /\ E_E \in ArchiveEntries

\* C10: a member that is no feed member, or a listed member that fails to
\* open, is skipped: no error is raised, nothing is accumulated for it and
\* the loop goes on to the next member.
C10_SkippedMembersRaiseNothing ==
    [][(AtMember /\ (~is_feed_member(Members[mi].name) \/ Members[mi].read # "ok"))
         => (pc' = "zip_member" /\ mi' = mi + 1 /\ error' = NoError
             /\ found' = found)]_vars

====
